---- MODULE Spec2Model ----
(***************************************************************************)
(* State-machine model of initialise.py, the one-shot project set-up       *)
(* script: main() checks for uv, asks three questions, rewrites the        *)
(* placeholder tokens in the file tree, installs the pre-commit hooks,     *)
(* deletes itself and bootstraps a GitHub repository.                      *)
(*                                                                         *)
(* Text is a sequence of one-character strings, so that str.replace,       *)
(* str.strip and str.startswith are computed character by character.       *)
(* External programs (uv, git, gh) are black boxes: each call ends with    *)
(* exit status zero or non-zero, chosen nondeterministically.  A file that *)
(* was read successfully is assumed to be writable.                        *)
(***************************************************************************)
EXTENDS Naturals, Sequences, FiniteSets

\* Bound of the model: the varying file's text is a concatenation of at most
\* MaxPieces pieces drawn from Pieces.
MaxPieces == 2

(***************************************************************************)
(* Literals of the source                                                  *)
(***************************************************************************)

\* "python-project-initialiser", key of replacements (line 51)
TOKEN_PROJECT_NAME == <<"p", "y", "t", "h", "o", "n", "-", "p", "r", "o", "j", "e", "c", "t", "-", "i", "n", "i", "t", "i", "a", "l", "i", "s", "e", "r">>

\* "python-project-initialiser-description", key of replacements (line 52)
TOKEN_DESCRIPTION == <<"p", "y", "t", "h", "o", "n", "-", "p", "r", "o", "j", "e", "c", "t", "-", "i", "n", "i", "t", "i", "a", "l", "i", "s", "e", "r", "-", "d", "e", "s", "c", "r", "i", "p", "t", "i", "o", "n">>

\* "3.11", key of replacements (line 53)
TOKEN_VERSION == <<"3", ".", "1", "1">>

\* "py311", key of replacements (line 54)
TOKEN_PY_VERSION == <<"p", "y", "3", "1", "1">>

\* default_python_version = "3.11" (line 40)
default_python_version == <<"3", ".", "1", "1">>

\* "__pycache__" (line 59)
PYCACHE == <<"_", "_", "p", "y", "c", "a", "c", "h", "e", "_", "_">>

\* ".git" (line 104)
DOT_GIT == <<".", "g", "i", "t">>

\* Path(__file__).name: the script is run as ./initialise.py
SCRIPT_NAME == <<"i", "n", "i", "t", "i", "a", "l", "i", "s", "e", ".", "p", "y">>

(***************************************************************************)
(* str methods                                                             *)
(***************************************************************************)

\* old occurs in s at position i
MatchAt(s, old, i) ==
    /\ i + Len(old) - 1 <= Len(s)
    /\ SubSeq(s, i, i + Len(old) - 1) = old

\* s.startswith(p)
StartsWith(s, p) == MatchAt(s, p, 1)

\* t in s
Contains(s, t) == \E i \in 1..Len(s) : MatchAt(s, t, i)

RECURSIVE Find(_, _, _)
\* s.find(old, i): the first position at or after i where old occurs, else 0
Find(s, old, i) ==
    IF i + Len(old) - 1 > Len(s) THEN 0
    ELSE IF MatchAt(s, old, i) THEN i
    ELSE Find(s, old, i + 1)

RECURSIVE ReplaceFrom(_, _, _, _)
\* s[i:].replace(old, new) for a non-empty old: leftmost occurrences, not
\* overlapping, each replaced once; the inserted text is not scanned again.
ReplaceFrom(s, old, new, i) ==
    LET j == Find(s, old, i)
    IN  IF j = 0 THEN SubSeq(s, i, Len(s))
        ELSE SubSeq(s, i, j - 1) \o new \o ReplaceFrom(s, old, new, j + Len(old))

\* s.replace(old, new)
Replace(s, old, new) == ReplaceFrom(s, old, new, 1)

IsSpace(c) == c = " "

RECURSIVE LStrip(_)
LStrip(s) == IF s # <<>> /\ IsSpace(Head(s)) THEN LStrip(Tail(s)) ELSE s

RECURSIVE RStrip(_)
RStrip(s) ==
    IF s # <<>> /\ IsSpace(s[Len(s)]) THEN RStrip(SubSeq(s, 1, Len(s) - 1)) ELSE s

\* s.strip()
Strip(s) == RStrip(LStrip(s))

\* c.lower() on the letters the answers use
LowerChar(c) ==
    CASE c = "Y" -> "y"
      [] c = "N" -> "n"
      [] c = "E" -> "e"
      [] c = "S" -> "s"
      [] OTHER -> c

\* s.lower()
Lower(s) == [i \in 1..Len(s) |-> LowerChar(s[i])]

(***************************************************************************)
(* The file tree under the working directory                               *)
(***************************************************************************)

SRC == <<"s", "r", "c">>
DOT_VENV == <<".", "v", "e", "n", "v">>
LIB == <<"l", "i", "b">>

File(dir, name) == [dir |-> dir, name |-> name]

F_README == File(<<>>, <<"R", "E", "A", "D", "M", "E", ".", "m", "d">>)
F_SCRIPT == File(<<>>, SCRIPT_NAME)
F_GITIGNORE == File(<<>>, <<".", "g", "i", "t", "i", "g", "n", "o", "r", "e">>)
F_LOGO == File(<<>>, <<"l", "o", "g", "o", ".", "p", "n", "g">>)
F_MAIN == File(<<SRC>>, <<"m", "a", "i", "n", ".", "p", "y">>)
F_SRC_SCRIPT == File(<<SRC>>, SCRIPT_NAME)
F_CACHED == File(<<SRC, PYCACHE>>, <<"c", "a", "c", "h", "e", "d", ".", "t", "x", "t">>)
F_SITE == File(<<DOT_VENV, LIB>>, <<"s", "i", "t", "e", ".", "p", "y">>)
F_GITCONFIG == File(<<DOT_GIT>>, <<"c", "o", "n", "f", "i", "g">>)

\* Every file the tree can hold, in the order a directory listing gives them.
AllFiles ==
    <<F_README, F_SCRIPT, F_GITIGNORE, F_LOGO, F_MAIN, F_SRC_SCRIPT, F_CACHED,
      F_SITE, F_GITCONFIG>>

AllFileSet == {AllFiles[i] : i \in 1..Len(AllFiles)}

\* Files whose bytes are not UTF-8: read_text raises UnicodeDecodeError.
Undecodable == {F_LOGO}

SPACE == <<" ">>

\* The pieces a template file's text is made of.
Pieces ==
    {TOKEN_PROJECT_NAME, <<"-", "d", "e", "s", "c", "r", "i", "p", "t", "i", "o", "n">>,
     TOKEN_VERSION}

RECURSIVE Texts(_)
Texts(n) ==
    IF n = 0 THEN {<<>>}
    ELSE Texts(n - 1) \cup {t \o p : t \in Texts(n - 1), p \in Pieces}

\* Contents of the tree before the run; README.md varies.
InitialContent(readme) ==
    [f \in AllFileSet |->
        CASE f = F_README -> readme
          [] f = F_SCRIPT -> TOKEN_VERSION \o SPACE \o TOKEN_PY_VERSION
          [] f = F_GITIGNORE -> TOKEN_PY_VERSION
          [] f = F_LOGO -> TOKEN_VERSION
          [] f = F_MAIN -> TOKEN_DESCRIPTION \o SPACE \o TOKEN_PY_VERSION
          [] f = F_SRC_SCRIPT -> TOKEN_VERSION
          [] f = F_CACHED -> TOKEN_PY_VERSION
          [] f = F_SITE -> TOKEN_VERSION
          [] OTHER -> <<"[", "c", "o", "r", "e", "]">>]

\* What the operator may type at the three prompts.
RawNames == {<<>>, <<" ", "d", "e", "m", "o", " ">>, <<"x", "3", ".", "1", "1">>, TOKEN_PROJECT_NAME}
RawDescriptions == {<<>>, <<"d", "e", "s", "c">>}
RawVersions == {<<>>, <<"3", ".", "1", "2">>, TOKEN_PROJECT_NAME}
RawVisibility == {<<>>, <<"Y">>, <<"n">>, <<" ", "y", "e", "s">>}


(***************************************************************************)
(* State                                                                   *)
(***************************************************************************)

VARIABLES
    pc,              \* position in main() and the functions it calls
    exitStatus,      \* <<>> while running, else <<status>> of the process
    uncaught,        \* the command whose CalledProcessError left main(), or "none"
    uv_path,         \* main's uv_path: "unset", "None" or "uv"
    project_name,    \* the three values get_user_input returned
    description,
    python_version,
    present,         \* files that exist on disk
    fs,              \* file -> text
    orig,            \* fs and present before the run (history)
    walkStack,       \* os.walk: directories still to be yielded
    walkRoot,        \* os.walk: the directory being listed
    walkFiles,       \* for file in files: names still to visit in walkRoot
    pass,            \* which call of replace_variables is running
    afterFirst,      \* fs when the first call of replace_variables returned
    reads,           \* files read_text was called on (history)
    writes,          \* write_text calls, in order (history)
    printed,         \* lines printed, in order
    calls,           \* subprocess.run calls, in order, with their outcome
    prompts,         \* number of input() calls
    unlinks,         \* number of times the script file was deleted
    git_path,        \* locals of initialise_github_repository
    gh_path,
    has_commits,
    visibility_flag

vars ==
    <<pc, exitStatus, uncaught, uv_path, project_name, description, python_version,
      present, fs, orig, walkStack, walkRoot, walkFiles, pass, afterFirst, reads,
      writes, printed, calls, prompts, unlinks, git_path, gh_path, has_commits,
      visibility_flag>>

inputVars == <<project_name, description, python_version>>
walkVars == <<walkStack, walkRoot, walkFiles>>
gitVars == <<git_path, gh_path, has_commits, visibility_flag>>

Init ==
    /\ pc = "check_uv_installed"
    /\ exitStatus = <<>>
    /\ uncaught = "none"
    /\ uv_path = "unset"
    /\ project_name = <<>>
    /\ description = <<>>
    /\ python_version = <<>>
    /\ present \in {AllFileSet, AllFileSet \ {F_GITCONFIG}}
    /\ fs \in {InitialContent(r) : r \in Texts(MaxPieces)}
    /\ orig = [fs |-> fs, present |-> present]
    /\ walkStack = <<>>
    /\ walkRoot = <<>>
    /\ walkFiles = <<>>
    /\ pass = 1
    /\ afterFirst = fs
    /\ reads = {}
    /\ writes = <<>>
    /\ printed = <<>>
    /\ calls = <<>>
    /\ prompts = 0
    /\ unlinks = 0
    /\ git_path = "unset"
    /\ gh_path = "unset"
    /\ has_commits = FALSE
    /\ visibility_flag = "unset"

Say(msg) == Append(printed, [msg |-> msg, arg |-> <<>>])

Ran(cmd, ok) == Append(calls, [cmd |-> cmd, ok |-> ok])

\* A CalledProcessError nobody catches: main() ends with a traceback, status 1.
Raise(cmd) ==
    /\ pc' = "raised"
    /\ uncaught' = cmd
    /\ exitStatus' = <<1>>

(***************************************************************************)
(* check_uv_installed, get_user_input                                      *)
(***************************************************************************)

\* Mutant: the sys.exit(1) is missing, so main() goes on with uv_path = None.
check_uv_installed_no_exit ==
    /\ pc = "check_uv_installed"
    /\ \E found \in BOOLEAN :
        IF ~found
        THEN /\ uv_path' = "None"
             /\ printed' = Say("uv is not installed")
             /\ pc' = "get_user_input"
             /\ UNCHANGED exitStatus
        ELSE /\ uv_path' = "uv"
             /\ pc' = "get_user_input"
             /\ UNCHANGED <<printed, exitStatus>>
    /\ UNCHANGED <<uncaught, inputVars, present, fs, orig, walkVars, pass, afterFirst,
                   reads, writes, calls, prompts, unlinks, gitVars>>

check_uv_installed ==
    /\ pc = "check_uv_installed"
    /\ \E found \in BOOLEAN :
        IF ~found
        THEN /\ uv_path' = "None"
             /\ printed' = Say("uv is not installed")
             /\ exitStatus' = <<1>>
             /\ pc' = "exited"
        ELSE /\ uv_path' = "uv"
             /\ pc' = "get_user_input"
             /\ UNCHANGED <<printed, exitStatus>>
    /\ UNCHANGED <<uncaught, inputVars, present, fs, orig, walkVars, pass, afterFirst,
                   reads, writes, calls, prompts, unlinks, gitVars>>

get_user_input ==
    /\ pc = "get_user_input"
    /\ \E n \in RawNames, d \in RawDescriptions, v \in RawVersions :
        /\ project_name' = Strip(n)
        /\ description' = (IF Strip(d) = <<>> THEN <<>> ELSE Strip(d))
        /\ python_version' = (IF Strip(v) = <<>> THEN default_python_version ELSE Strip(v))
    /\ prompts' = prompts + 3
    /\ pc' = "replace_variables"
    /\ UNCHANGED <<exitStatus, uncaught, uv_path, present, fs, orig, walkVars, pass,
                   afterFirst, reads, writes, printed, calls, unlinks, gitVars>>

(***************************************************************************)
(* replace_variables                                                       *)
(***************************************************************************)

\* The replacements dict; a dict iterates in insertion order.
replacements ==
    << [var |-> TOKEN_PROJECT_NAME, val |-> project_name],
       [var |-> TOKEN_DESCRIPTION, val |-> description],
       [var |-> TOKEN_VERSION, val |-> python_version],
       [var |-> TOKEN_PY_VERSION,
        val |-> <<"p", "y">> \o Replace(python_version, <<".">>, <<>>)] >>

RECURSIVE ApplyFrom(_, _, _)
ApplyFrom(content, table, i) ==
    IF i > Len(table) THEN content
    ELSE ApplyFrom(Replace(content, table[i].var, table[i].val), table, i + 1)

\* for var, val in replacements.items(): new_content = new_content.replace(var, val)
ApplyReplacements(content, table) == ApplyFrom(content, table, 1)

\* Mutant: the file is written back whether or not its text changed.
ShouldWriteAlways(content, new_content) == TRUE

\* if new_content != content
ShouldWrite(content, new_content) == new_content # content

\* Mutant: dirs = [...] instead of dirs[:] = [...]; os.walk still descends everywhere.
KeepDirNotInPlace(d) == TRUE

\* [d for d in dirs if not d.startswith(".") and d != "__pycache__"]
KeepDir(d) == ~StartsWith(d, <<".">>) /\ d # PYCACHE

IsUnder(f, root) ==
    /\ Len(f.dir) > Len(root)
    /\ SubSeq(f.dir, 1, Len(root)) = root

RECURSIVE Dedupe(_)
Dedupe(s) ==
    IF s = <<>> THEN <<>>
    ELSE LET r == Dedupe(SubSeq(s, 1, Len(s) - 1))
             x == s[Len(s)]
         IN  IF \E i \in 1..Len(r) : r[i] = x THEN r ELSE Append(r, x)

\* os.walk's files for root: the names of the files in it
ListFiles(root) ==
    LET InRoot(f) == f \in present /\ f.dir = root
        here == SelectSeq(AllFiles, InRoot)
    IN  [i \in 1..Len(here) |-> here[i].name]

\* os.walk's dirs for root: the names of its sub-directories
ListDirs(root) ==
    LET Below(f) == f \in present /\ IsUnder(f, root)
        below == SelectSeq(AllFiles, Below)
    IN  Dedupe([i \in 1..Len(below) |-> below[i].dir[Len(root) + 1]])

\* replace_variables is called: os.walk(".") starts at the working directory.
replace_variables ==
    /\ pc = "replace_variables"
    /\ walkStack' = << <<>> >>
    /\ walkRoot' = <<>>
    /\ walkFiles' = <<>>
    /\ pc' = "walk"
    /\ UNCHANGED <<exitStatus, uncaught, uv_path, inputVars, present, fs, orig, pass,
                   afterFirst, reads, writes, printed, calls, prompts, unlinks, gitVars>>

\* One step of for root, dirs, files in os.walk("."): the next directory is
\* listed, dirs is pruned in place and the walk will descend only into what is left.
WalkNextDir ==
    /\ pc = "walk"
    /\ walkFiles = <<>>
    /\ walkStack # <<>>
    /\ LET root == Head(walkStack)
           kept == SelectSeq(ListDirs(root), KeepDir)
       IN  /\ walkRoot' = root
           /\ walkFiles' = ListFiles(root)
           /\ walkStack' = [i \in 1..Len(kept) |-> Append(root, kept[i])] \o Tail(walkStack)
    /\ UNCHANGED <<pc, exitStatus, uncaught, uv_path, inputVars, present, fs, orig, pass,
                   afterFirst, reads, writes, printed, calls, prompts, unlinks, gitVars>>

\* One step of for file in files.
VisitFile ==
    /\ pc = "walk"
    /\ walkFiles # <<>>
    /\ LET path == File(walkRoot, Head(walkFiles))
           content == fs[path]
           new_content == ApplyReplacements(content, replacements)
       IN  IF Head(walkFiles) = SCRIPT_NAME
           THEN UNCHANGED <<fs, reads, writes, printed>>
           ELSE IF path \in Undecodable
           THEN /\ reads' = reads \cup {path}
                /\ UNCHANGED <<fs, writes, printed>>
           ELSE /\ reads' = reads \cup {path}
                /\ IF ShouldWrite(content, new_content)
                   THEN /\ fs' = [fs EXCEPT ![path] = new_content]
                        /\ writes' = Append(writes, [file |-> path, pass |-> pass])
                        /\ printed' = Append(printed, [msg |-> "Updated", arg |-> <<path>>])
                   ELSE UNCHANGED <<fs, writes, printed>>
    /\ walkFiles' = Tail(walkFiles)
    /\ UNCHANGED <<pc, exitStatus, uncaught, uv_path, inputVars, present, orig, walkStack,
                   walkRoot, pass, afterFirst, calls, prompts, unlinks, gitVars>>

\* The walk is over: replace_variables returns to main().
replace_variables_return ==
    /\ pc = "walk"
    /\ walkFiles = <<>>
    /\ walkStack = <<>>
    /\ pass = 1
    /\ afterFirst' = fs
    /\ pc' = "precommit_install"
    /\ UNCHANGED <<exitStatus, uncaught, uv_path, inputVars, present, fs, orig, walkVars,
                   pass, reads, writes, printed, calls, prompts, unlinks, gitVars>>

\* replace_variables is called a second time with the same three values.
replace_variables_again ==
    /\ pc = "walk"
    /\ walkFiles = <<>>
    /\ walkStack = <<>>
    /\ pass = 1
    /\ afterFirst' = fs
    /\ pass' = 2
    /\ pc' = "replace_variables"
    /\ UNCHANGED <<exitStatus, uncaught, uv_path, inputVars, present, fs, orig, walkVars,
                   reads, writes, printed, calls, prompts, unlinks, gitVars>>

(***************************************************************************)
(* initialise_precommit, and the deletion of the script                    *)
(***************************************************************************)

\* subprocess.run([uv_path, "run", "pre-commit", "install"], check=True): not in a try.
initialise_precommit_install ==
    /\ pc = "precommit_install"
    /\ \E ok \in BOOLEAN :
        /\ calls' = Ran("uv run pre-commit install", ok)
        /\ IF ok
           THEN pc' = "precommit_run" /\ UNCHANGED <<uncaught, exitStatus>>
           ELSE Raise("uv run pre-commit install")
    /\ UNCHANGED <<uv_path, inputVars, present, fs, orig, walkVars, pass, afterFirst,
                   reads, writes, printed, prompts, unlinks, gitVars>>

\* subprocess.run([uv_path, "run", "pre-commit", "run", "--all-files"], check=True)
initialise_precommit_run ==
    /\ pc = "precommit_run"
    /\ \E ok \in BOOLEAN :
        /\ calls' = Ran("uv run pre-commit run --all-files", ok)
        /\ IF ok
           THEN pc' = "unlink" /\ UNCHANGED <<uncaught, exitStatus>>
           ELSE Raise("uv run pre-commit run --all-files")
    /\ UNCHANGED <<uv_path, inputVars, present, fs, orig, walkVars, pass, afterFirst,
                   reads, writes, printed, prompts, unlinks, gitVars>>

\* Path(__file__).unlink()
unlink_script ==
    /\ pc = "unlink"
    /\ present' = present \ {F_SCRIPT}
    /\ unlinks' = unlinks + 1
    /\ pc' = "which"
    /\ UNCHANGED <<exitStatus, uncaught, uv_path, inputVars, fs, orig, walkVars, pass,
                   afterFirst, reads, writes, printed, calls, prompts, gitVars>>

(***************************************************************************)
(* initialise_github_repository                                            *)
(***************************************************************************)

\* Path(".git").exists()
GitDirExists == \E f \in present : f.dir # <<>> /\ f.dir[1] = DOT_GIT

\* Leaving initialise_github_repository: main() goes on to its last two prints.
ReturnToMain == pc' = "finish"

\* shutil.which("git"), shutil.which("gh") and the two early returns.
which_git_gh ==
    /\ pc = "which"
    /\ \E git \in BOOLEAN, gh \in BOOLEAN :
        IF ~git
        THEN /\ git_path' = "None"
             /\ printed' = Say("Git is not installed")
             /\ ReturnToMain
             /\ UNCHANGED gh_path
        ELSE IF ~gh
        THEN /\ git_path' = "git"
             /\ gh_path' = "None"
             /\ printed' = Say("GitHub CLI (gh) is not installed")
             /\ ReturnToMain
        ELSE /\ git_path' = "git"
             /\ gh_path' = "gh"
             /\ pc' = "gh_auth_status"
             /\ UNCHANGED printed
    /\ UNCHANGED <<exitStatus, uncaught, uv_path, inputVars, present, fs, orig, walkVars,
                   pass, afterFirst, reads, writes, calls, prompts, unlinks, has_commits,
                   visibility_flag>>

\* Mutant: the handler prints and falls through instead of returning.
AuthFailedFallsThrough == pc' = "git_repository"

\* What the handler of a failed "gh auth status" does after its print: return.
AuthFailed == ReturnToMain

gh_auth_status ==
    /\ pc = "gh_auth_status"
    /\ \E ok \in BOOLEAN :
        /\ calls' = Ran("gh auth status", ok)
        /\ IF ok
           THEN pc' = "git_repository" /\ UNCHANGED printed
           ELSE /\ printed' = Say("You are not authenticated with GitHub")
                /\ AuthFailed
    /\ UNCHANGED <<exitStatus, uncaught, uv_path, inputVars, present, fs, orig, walkVars,
                   pass, afterFirst, reads, writes, prompts, unlinks, gitVars>>

\* if Path(".git").exists(): git log -1 decides has_commits; else: git init.
git_repository ==
    /\ pc = "git_repository"
    /\ \E ok \in BOOLEAN :
        IF GitDirExists
        THEN /\ calls' = Ran("git log --oneline -1", ok)
             /\ printed' = Say("Git repository already initialized.")
             /\ has_commits' = ok
             /\ pc' = (IF ok THEN "visibility" ELSE "git_add")
             /\ UNCHANGED <<present, uncaught, exitStatus>>
        ELSE /\ calls' = Ran("git init", ok)
             /\ IF ok
                THEN /\ present' = present \cup {F_GITCONFIG}
                     /\ printed' = Say("Initialized empty Git repository.")
                     /\ pc' = "git_add"
                     /\ UNCHANGED <<uncaught, exitStatus>>
                ELSE /\ Raise("git init")
                     /\ UNCHANGED <<present, printed>>
             /\ has_commits' = FALSE
    /\ UNCHANGED <<uv_path, inputVars, fs, orig, walkVars, pass, afterFirst, reads,
                   writes, prompts, unlinks, git_path, gh_path, visibility_flag>>

\* subprocess.run([git_path, "add", "."], check=True): not in a try.
git_add ==
    /\ pc = "git_add"
    /\ \E ok \in BOOLEAN :
        /\ calls' = Ran("git add .", ok)
        /\ IF ok
           THEN /\ printed' = Say("Added files to staging area.")
                /\ pc' = "git_commit"
                /\ UNCHANGED <<uncaught, exitStatus>>
           ELSE /\ Raise("git add .")
                /\ UNCHANGED printed
    /\ UNCHANGED <<uv_path, inputVars, present, fs, orig, walkVars, pass, afterFirst,
                   reads, writes, prompts, unlinks, gitVars>>

\* Mutant: the handler prints and falls through to the creation of the remote.
CommitFailedFallsThrough == pc' = "visibility"

\* What the handler of a failed "git commit" does after its print: return.
CommitFailed == ReturnToMain

git_commit ==
    /\ pc = "git_commit"
    /\ \E ok \in BOOLEAN :
        /\ calls' = Ran("git commit", ok)
        /\ IF ok
           THEN /\ printed' = Say("Created initial commit.")
                /\ pc' = "visibility"
           ELSE /\ printed' = Say("No changes to commit or commit failed.")
                /\ CommitFailed
    /\ UNCHANGED <<exitStatus, uncaught, uv_path, inputVars, present, fs, orig, walkVars,
                   pass, afterFirst, reads, writes, prompts, unlinks, gitVars>>

\* input("Make the repository public? (y/n) [y]: ").strip().lower()
ask_visibility ==
    /\ pc = "visibility"
    /\ \E raw \in RawVisibility :
        LET visibility == Lower(Strip(raw))
        IN  visibility_flag' =
                (IF visibility \in {<<>>, <<"y">>, <<"y", "e", "s">>}
                 THEN "--public" ELSE "--private")
    /\ prompts' = prompts + 1
    /\ pc' = "gh_repo_create"
    /\ UNCHANGED <<exitStatus, uncaught, uv_path, inputVars, present, fs, orig, walkVars,
                   pass, afterFirst, reads, writes, printed, calls, unlinks, git_path,
                   gh_path, has_commits>>

\* gh repo create <project_name> <visibility_flag> --source=. --push, in a try.
gh_repo_create ==
    /\ pc = "gh_repo_create"
    /\ \E ok \in BOOLEAN :
        /\ calls' = Ran("gh repo create", ok)
        /\ printed' = (IF ok THEN Say("Created and pushed to GitHub repository")
                       ELSE Say("Failed to create GitHub repository"))
    /\ ReturnToMain
    /\ UNCHANGED <<exitStatus, uncaught, uv_path, inputVars, present, fs, orig, walkVars,
                   pass, afterFirst, reads, writes, prompts, unlinks, gitVars>>

\* The last two prints of main(); the interpreter then exits with status 0.
finish ==
    /\ pc = "finish"
    /\ printed' = Append(Say("The setup script has been removed."),
                         [msg |-> "Project initialized successfully.", arg |-> <<>>])
    /\ exitStatus' = <<0>>
    /\ pc' = "done"
    /\ UNCHANGED <<uncaught, uv_path, inputVars, present, fs, orig, walkVars, pass,
                   afterFirst, reads, writes, calls, prompts, unlinks, gitVars>>

(***************************************************************************)
(* Specifications                                                          *)
(***************************************************************************)

Next ==
    \/ check_uv_installed
    \/ get_user_input
    \/ replace_variables
    \/ WalkNextDir
    \/ VisitFile
    \/ replace_variables_return
    \/ initialise_precommit_install
    \/ initialise_precommit_run
    \/ unlink_script
    \/ which_git_gh
    \/ gh_auth_status
    \/ git_repository
    \/ git_add
    \/ git_commit
    \/ ask_visibility
    \/ gh_repo_create
    \/ finish

\* One run of main().
Spec == Init /\ [][Next]_vars

NextTwice ==
    \/ check_uv_installed
    \/ get_user_input
    \/ replace_variables
    \/ WalkNextDir
    \/ VisitFile
    \/ replace_variables_again

\* replace_variables called twice in a row with the same three values.
SpecTwice == Init /\ [][NextTwice]_vars

(***************************************************************************)
(* Vocabulary of the properties                                            *)
(***************************************************************************)

Tokens == {TOKEN_PROJECT_NAME, TOKEN_DESCRIPTION, TOKEN_VERSION, TOKEN_PY_VERSION}

HasToken(s) == \E t \in Tokens : Contains(s, t)

\* f lies, at some depth, under a hidden directory or a __pycache__ directory.
UnderPruned(f) ==
    \E i \in 1..Len(f.dir) : f.dir[i][1] = "." \/ f.dir[i] = PYCACHE

\* The text files the rewrite is meant to cover.
Rewritable ==
    {f \in orig.present : ~UnderPruned(f) /\ f.name # SCRIPT_NAME /\ f \notin Undecodable}

\* replace_variables has returned to main().
RewriteDone ==
    pc \notin {"check_uv_installed", "exited", "get_user_input", "replace_variables", "walk"}

WrittenIn(p) == {writes[i].file : i \in {j \in 1..Len(writes) : writes[j].pass = p}}

ValuesTokenFree == \A i \in 1..Len(replacements) : ~HasToken(replacements[i].val)

Called(cmd) == \E i \in 1..Len(calls) : calls[i].cmd = cmd

Failed(cmd) == \E i \in 1..Len(calls) : calls[i].cmd = cmd /\ ~calls[i].ok

Succeeded(cmd) == \E i \in 1..Len(calls) : calls[i].cmd = cmd /\ calls[i].ok

Said(msg) == \E i \in 1..Len(printed) : printed[i].msg = msg

RECURSIVE SubstituteEach(_, _)
\* Every occurrence of a token, read left to right and longest first, replaced
\* by that token's own value; text that is no token is kept.
SubstituteEach(s, i) ==
    IF i > Len(s) THEN <<>>
    ELSE IF MatchAt(s, TOKEN_DESCRIPTION, i)
         THEN description \o SubstituteEach(s, i + Len(TOKEN_DESCRIPTION))
    ELSE IF MatchAt(s, TOKEN_PROJECT_NAME, i)
         THEN project_name \o SubstituteEach(s, i + Len(TOKEN_PROJECT_NAME))
    ELSE IF MatchAt(s, TOKEN_PY_VERSION, i)
         THEN replacements[4].val \o SubstituteEach(s, i + Len(TOKEN_PY_VERSION))
    ELSE IF MatchAt(s, TOKEN_VERSION, i)
         THEN python_version \o SubstituteEach(s, i + Len(TOKEN_VERSION))
    ELSE <<s[i]>> \o SubstituteEach(s, i + 1)

(***************************************************************************)
(* C1                                                                      *)
(***************************************************************************)

\* C1: once replace_variables has returned, every visited text file holds no
\* placeholder token and is its original text with each token occurrence
\* replaced by that token's own value (the description token by the
\* description).  Stated for values that hold no placeholder text themselves,
\* the inputs for which the claim can be met at all.
C1_EachTokenItsOwnValue ==
    (RewriteDone /\ ValuesTokenFree) =>
        \A f \in Rewritable :
            /\ ~HasToken(fs[f])
            /\ fs[f] = SubstituteEach(orig.fs[f], 1)

(***************************************************************************)
(* C2                                                                      *)
(***************************************************************************)

\* C2: when uv is not found, main() has ended with exit status 1 and nothing
\* has happened: no prompt, no subprocess, no file read, written or removed.
C2_NoUvNoEffect ==
    uv_path = "None" =>
        /\ pc = "exited"
        /\ exitStatus = <<1>>
        /\ prompts = 0
        /\ calls = <<>>
        /\ reads = {}
        /\ writes = <<>>
        /\ unlinks = 0
        /\ fs = orig.fs
        /\ present = orig.present

C2_Witness == uv_path = "None" /\ pc = "exited" /\ Said("uv is not installed")

(***************************************************************************)
(* C3                                                                      *)
(***************************************************************************)

\* C3: replace_variables never writes the script's own file, the script is
\* deleted only after replace_variables has returned and at most once, and a
\* run of main() that got past the uv check and has ended deleted it exactly
\* once.
C3_DeletedExactlyOnce ==
    /\ \A i \in 1..Len(writes) : writes[i].file.name # SCRIPT_NAME
    /\ unlinks > 0 => RewriteDone
    /\ unlinks <= 1
    /\ (uv_path = "uv" /\ exitStatus # <<>>) => unlinks = 1

(***************************************************************************)
(* C4                                                                      *)
(***************************************************************************)

\* C4: no file under a hidden or __pycache__ directory, at any depth, is ever
\* read or written by replace_variables; its text stays what it was.
C4_PrunedUntouched ==
    \A f \in AllFileSet :
        UnderPruned(f) =>
            /\ f \notin reads
            /\ f \notin WrittenIn(1)
            /\ fs[f] = orig.fs[f]

\* The walk is over, it rewrote something, and files under .venv/lib and
\* src/__pycache__ hold tokens the table would have changed.
C4_Witness ==
    /\ RewriteDone
    /\ F_MAIN \in WrittenIn(1)
    /\ ShouldWrite(fs[F_SITE], ApplyReplacements(fs[F_SITE], replacements))
    /\ ShouldWrite(fs[F_CACHED], ApplyReplacements(fs[F_CACHED], replacements))

(***************************************************************************)
(* C5                                                                      *)
(***************************************************************************)

\* C5: gh repo create is reached only after git log -1 or git commit has
\* succeeded in this run, and never in a run in which git add or git commit
\* failed.
C5_CreateNeedsCommit ==
    /\ (pc = "gh_repo_create" \/ Called("gh repo create")) =>
            (Succeeded("git log --oneline -1") \/ Succeeded("git commit"))
    /\ (Failed("git add .") \/ Failed("git commit")) =>
            (~Called("gh repo create") /\ pc \notin {"visibility", "gh_repo_create"})

C5_Witness ==
    /\ Called("gh repo create")
    /\ Succeeded("git commit")
    /\ ~Called("git log --oneline -1")

(***************************************************************************)
(* C6                                                                      *)
(***************************************************************************)

BootstrapCommands ==
    {"git init", "git add .", "git commit", "gh auth status", "gh repo create"}

\* C6: a failed subprocess of the repository bootstrapping is always caught:
\* a message is printed, no exception leaves main(), and the process does not
\* end with a non-zero status.
C6_BootstrapFailuresCaught ==
    (\E c \in BootstrapCommands : Failed(c)) =>
        /\ uncaught = "none"
        /\ exitStatus \in {<<>>, <<0>>}

(***************************************************************************)
(* C7                                                                      *)
(***************************************************************************)

\* C7: a run that passed the uv check never stops short: whatever the hook
\* set-up and the bootstrapping subprocesses return, when the process has
\* ended it is in "done", with the script file deleted.
C7_AlwaysReachesDone ==
    (uv_path = "uv" /\ exitStatus # <<>>) => (pc = "done" /\ F_SCRIPT \notin present)

(***************************************************************************)
(* C8 (checked under SpecTwice)                                            *)
(***************************************************************************)

\* The second call of replace_variables has walked the whole tree.
SecondPassOver == pass = 2 /\ pc = "walk" /\ walkFiles = <<>> /\ walkStack = <<>>

NoTokenAfterFirst == \A f \in Rewritable : ~HasToken(afterFirst[f])

\* C8 as claimed: the second call changes no file only if no token text was
\* left in a visited file by the first call, and no token text is left by the
\* first call only if no substitution value holds a placeholder token.
C8_OnlyIf ==
    SecondPassOver =>
        /\ (WrittenIn(2) = {}) => NoTokenAfterFirst
        /\ NoTokenAfterFirst => ValuesTokenFree

\* C8 as amended: a file the second call writes held placeholder token text
\* after the first call; so the second call changes no file if (not: only if)
\* no token text was left by the first.
C8_ChangedHadToken ==
    pass = 2 => \A f \in WrittenIn(2) : f \in Rewritable /\ HasToken(afterFirst[f])

\* The second call is over; it rewrote one file, which held a token after the
\* first call, and left alone a file the first call had cleared of tokens.
C8_Witness ==
    /\ SecondPassOver
    /\ F_MAIN \in WrittenIn(2)
    /\ F_README \in WrittenIn(1) \ WrittenIn(2)
    /\ ~HasToken(afterFirst[F_README])

(***************************************************************************)
(* C9                                                                      *)
(***************************************************************************)

GitCommands == {"git log --oneline -1", "git init", "git add .", "git commit", "gh repo create"}

\* C9: when git or gh is missing or gh auth status fails, the function has
\* printed its guidance and returned: no git command and no gh repo create
\* was run, nothing raised, the rewritten files are as replace_variables left
\* them, and main() ends normally, with its two last messages and status 0.
C9_SkipIsGraceful ==
    (git_path = "None" \/ gh_path = "None" \/ Failed("gh auth status")) =>
        /\ \A c \in GitCommands : ~Called(c)
        /\ pc \in {"finish", "done"}
        /\ uncaught = "none"
        /\ fs = afterFirst
        /\ \/ Said("Git is not installed")
           \/ Said("GitHub CLI (gh) is not installed")
           \/ Said("You are not authenticated with GitHub")
        /\ pc = "done" =>
            /\ exitStatus = <<0>>
            /\ Said("The setup script has been removed.")
            /\ Said("Project initialized successfully.")
        /\ pc = "finish" => exitStatus = <<>>

C9_Witness ==
    /\ pc = "done"
    /\ Failed("gh auth status")
    /\ Len(writes) > 0

(***************************************************************************)
(* C10                                                                     *)
(***************************************************************************)

TimesWritten(f) == Cardinality({i \in 1..Len(writes) : writes[i].file = f})

TimesUpdatedSaid(f) ==
    Cardinality({i \in 1..Len(printed) :
                    printed[i].msg = "Updated" /\ printed[i].arg = <<f>>})

\* C10: a file that was read as text holds the substituted text, any other
\* file (not decodable, not visited) its original text; a file was written
\* back exactly when its text changed, and then once, with one "Updated"
\* line: a file whose text did not change was never written and has none.
C10_WrittenIffChanged ==
    \A f \in AllFileSet :
        LET read == f \in reads /\ f \notin Undecodable
            changed == fs[f] # orig.fs[f]
        IN  /\ fs[f] = (IF read THEN ApplyReplacements(orig.fs[f], replacements)
                        ELSE orig.fs[f])
            /\ TimesWritten(f) = (IF changed THEN 1 ELSE 0)
            /\ TimesUpdatedSaid(f) = TimesWritten(f)

\* The walk is over: one file was rewritten, one was read and left alone
\* because nothing in it changed, and the undecodable one was tried and skipped.
C10_Witness ==
    /\ RewriteDone
    /\ TimesWritten(F_MAIN) = 1
    /\ F_README \in reads /\ TimesWritten(F_README) = 0
    /\ F_LOGO \in reads /\ TimesWritten(F_LOGO) = 0

====
